---- MODULE Spec2Model ----
(***************************************************************************)
(* Model of the job matching core of ai-job-agent: the multi-factor scorer *)
(* and pipeline of src/matcher/enhanced_matcher.py, the Match table it     *)
(* writes through one SQLAlchemy session on SQLite (src/db.py), the web    *)
(* readers of src/web/app.py and the FAISS vector store of                 *)
(* src/embeddings/vector_store.py.                                         *)
(*                                                                         *)
(* Floats are fixed point: a sub-score s is the integer s * Scale, a       *)
(* weight w is w * WUnit, an overall score o is o * One.  Salaries are in  *)
(* thousands, ratings in tenths.  A numeric column that is None is 0 and a *)
(* list column that is None is <<>>: the code only ever tests these        *)
(* columns with `not x` / `x or default`, which do not tell them apart.    *)
(***************************************************************************)
EXTENDS Integers, Sequences, FiniteSets, TLC

Scale == 10 * 100
WUnit == 10 * 10
One == Scale * WUnit

Min(a, b) == IF a <= b THEN a ELSE b
Max(a, b) == IF a >= b THEN a ELSE b

Range(s) == {s[i] : i \in 1..Len(s)}

ISqrt(x) == CHOOSE n \in 0..x : n * n <= x /\ (n + 1) * (n + 1) > x

(***************************************************************************)
(* Strings.  str.lower() on the skill names the model uses, and the        *)
(* substring test `skill in text` of _extract_skills_from_text on the      *)
(* words a job description is made of.                                     *)
(***************************************************************************)
Lower(s) ==
    CASE s = "Python" -> "python"
      [] s = "SQL" -> "sql"
      [] s = "React" -> "react"
      [] OTHER -> s

\* `skill in word` for the lower-case words of the model's descriptions.
SkillInWord(skill, word) ==
    \/ skill = word
    \/ skill = "java" /\ word = "javascript"
    \/ skill = "rest" /\ word = "interest"
    \/ skill = "api" /\ word = "rapid"

\* The part of common_skills the model's texts can hit.
common_skills == {"python", "java", "javascript", "react", "sql", "rest", "api"}

\* A description is the sequence of its words; it is lower-cased by the caller.
_extract_skills_from_text(text) ==
    {skill \in common_skills : \E i \in 1..Len(text) : SkillInWord(skill, text[i])}

\* Characters of a location string are small numbers; `a in b` on strings.
IsInfix(a, b) ==
    \E i \in 0..(Len(b) - Len(a)) : \A k \in 1..Len(a) : b[i + k] = a[k]

(***************************************************************************)
(* list(set): CPython iterates a set of str in an order fixed by the       *)
(* process's string hash seed, so the list order is one of the orders a    *)
(* process can produce.  SkillRank fixes one order, seed 1 reverses it.    *)
(***************************************************************************)
SkillRank(s) ==
    CASE s = "python" -> 1
      [] s = "java" -> 2
      [] s = "javascript" -> 3
      [] s = "react" -> 4
      [] s = "sql" -> 5
      [] s = "rest" -> 6
      [] s = "api" -> 7
      [] OTHER -> 8

RECURSIVE ListOfSet(_, _)
ListOfSet(S, seed) ==
    IF S = {} THEN <<>>
    ELSE LET x == CHOOSE y \in S : \A z \in S :
                      IF seed = 0 THEN SkillRank(y) <= SkillRank(z)
                                  ELSE SkillRank(y) >= SkillRank(z)
         IN  <<x>> \o ListOfSet(S \ {x}, seed)

Take(s, n) == SubSeq(s, 1, Min(n, Len(s)))

(***************************************************************************)
(* Encoder: all-MiniLM-L6-v2 with normalize_embeddings=True.  A text is    *)
(* the number of its topic and its vector is a point of the circle of      *)
(* radius 5 (the unit of length), so inner products are exact.             *)
(***************************************************************************)
Encode(text) ==
    CASE text = 1 -> <<5, 0>>
      [] text = 2 -> <<4, 3>>
      [] text = 3 -> <<3, 4>>
      [] text = 4 -> <<0, 5>>
      [] text = 5 -> <<-3, 4>>
      [] text = 6 -> <<-5, 0>>
      [] OTHER -> <<0, -5>>

Dot(a, b) == a[1] * b[1] + a[2] * b[2]
Norm(a) == ISqrt(Dot(a, a))

(***************************************************************************)
(* The scorer, EnhancedJobMatcher._calculate_match_score and its helpers.  *)
(* user and job are rows of user_profiles and jobs (with the joined        *)
(* company); encOk = FALSE is the encoder raising.                         *)
(***************************************************************************)
_calculate_semantic_score(user, job, encOk) ==
    IF ~encOk THEN Scale \div 2
    ELSE LET user_embedding == Encode(user.text)
             job_embedding == Encode(job.text)
             similarity == (Dot(user_embedding, job_embedding) * Scale)
                               \div (Norm(user_embedding) * Norm(job_embedding))
         IN  Max(0, Min(Scale, similarity))

\* Faulty variant: the description is not searched for skills.
JobSkills_structured(job) ==
    {Lower(s) : s \in Range(job.required_skills)}
        \cup {Lower(s) : s \in Range(job.preferred_skills)}

JobSkills(job) ==
    {Lower(s) : s \in Range(job.required_skills)}
        \cup {Lower(s) : s \in Range(job.preferred_skills)}
        \cup (IF job.description # <<>>
              THEN _extract_skills_from_text(job.description) ELSE {})

\* <<skill_score, matched_skills, missing_skills>>
_calculate_skill_match(user, job, seed) ==
    LET user_skills == {Lower(s) : s \in Range(user.skills)}
        job_skills == JobSkills(job)
        matched_skills == ListOfSet(user_skills \cap job_skills, seed)
        missing_skills == ListOfSet(job_skills \ user_skills, seed)
    IN  IF job_skills = {} THEN <<Scale \div 2, <<>>, <<>>>>
        ELSE <<(Len(matched_skills) * Scale) \div Cardinality(job_skills),
               matched_skills, missing_skills>>

level_ranges(level) ==
    CASE level = "entry" -> <<0, 2>>
      [] level = "junior" -> <<1, 3>>
      [] level = "mid" -> <<3, 6>>
      [] level = "senior" -> <<5, 10>>
      [] level = "lead" -> <<7, 15>>
      [] level = "principal" -> <<10, 20>>
      [] OTHER -> <<0, 20>>

_calculate_experience_match(user, job) ==
    IF user.experience_years = 0 \/ job.experience_level = "" THEN (7 * Scale) \div 10
    ELSE LET job_range == level_ranges(job.experience_level)
             user_exp == user.experience_years
         IN  IF job_range[1] <= user_exp /\ user_exp <= job_range[2] THEN Scale
             ELSE IF user_exp < job_range[1]
                  THEN Max((3 * Scale) \div 10,
                           Scale - (job_range[1] - user_exp) * ((2 * Scale) \div 10))
                  ELSE Max((6 * Scale) \div 10,
                           Scale - (user_exp - job_range[2]) * (Scale \div 10))

_calculate_location_match(user, job) ==
    IF user.preferred_locations = <<>> \/ job.location = <<>> THEN (8 * Scale) \div 10
    ELSE IF \E i \in 1..Len(user.preferred_locations) :
                \/ IsInfix(user.preferred_locations[i], job.location)
                \/ IsInfix(job.location, user.preferred_locations[i])
         THEN Scale
         ELSE IF /\ job.remote_option \in {"remote", "hybrid"}
                 /\ user.preferred_remote \in {"remote", "hybrid", "flexible"}
              THEN (9 * Scale) \div 10
              ELSE (4 * Scale) \div 10

\* Faulty variant: any job with salary data is a full match.
_calculate_salary_match_full(user, job) ==
    IF user.preferred_salary_min = 0 \/ job.salary_min = 0 THEN (7 * Scale) \div 10
    ELSE Scale

\* Amounts are doubled inside so that user_min * 1.5 stays an integer.
_calculate_salary_match(user, job) ==
    IF user.preferred_salary_min = 0 \/ job.salary_min = 0 THEN (7 * Scale) \div 10
    ELSE LET user_min == 2 * user.preferred_salary_min
             user_max == IF user.preferred_salary_max # 0
                         THEN 2 * user.preferred_salary_max
                         ELSE 3 * user.preferred_salary_min
             job_min == 2 * job.salary_min
             job_max == IF job.salary_max # 0 THEN 2 * job.salary_max ELSE job_min
             overlap == Min(user_max, job_max) - Max(user_min, job_min)
             user_range == user_max - user_min
         IN  IF job_max >= user_min /\ job_min <= user_max
             THEN IF user_range > 0
                  THEN Min(Scale, (overlap * Scale) \div user_range)
                  ELSE Scale
             ELSE IF job_max < user_min
                  THEN Max((2 * Scale) \div 10,
                           ((user_min - (user_min - job_max)) * Scale) \div user_min)
                  ELSE Scale

_calculate_company_match(user, job) ==
    IF ~job.has_company THEN Scale \div 2
    ELSE LET size_bonus ==
                 IF /\ user.preferred_company_size # <<>>
                    /\ job.company_size # ""
                    /\ job.company_size \in Range(user.preferred_company_size)
                 THEN (3 * Scale) \div 10 ELSE 0
             rating_bonus ==
                 IF job.glassdoor_rating # 0
                 THEN (2 * Scale * job.glassdoor_rating) \div (10 * 50) ELSE 0
         IN  Min(Scale, Scale \div 2 + size_bonus + rating_bonus)

_generate_match_reasons(semantic_score, skill_score, exp_score, matched_skills, job) ==
    (IF semantic_score > (8 * Scale) \div 10
         THEN <<<<"Strong semantic match with your background">>>>
     ELSE IF semantic_score > (6 * Scale) \div 10
         THEN <<<<"Good alignment with your experience">>>>
     ELSE <<>>)
    \o (IF skill_score > (7 * Scale) \div 10
            THEN <<<<"Strong skill match", Take(matched_skills, 3)>>>>
        ELSE IF matched_skills # <<>>
            THEN <<<<"Skill overlap", Take(matched_skills, 2)>>>>
        ELSE <<>>)
    \o (IF exp_score > (8 * Scale) \div 10
            THEN <<<<"Perfect experience level match">>>>
        ELSE IF exp_score > (6 * Scale) \div 10
            THEN <<<<"Good experience level fit">>>>
        ELSE <<>>)
    \o (IF job.remote_option = "remote" THEN <<<<"Remote work available">>>>
        ELSE IF job.remote_option = "hybrid" THEN <<<<"Hybrid work option">>>>
        ELSE <<>>)
    \o (IF job.salary_min # 0 /\ job.salary_min > 100
            THEN <<<<"Competitive salary range">>>> ELSE <<>>)

\* dict.get(key, default) on the weights and thresholds read from settings.yml
DictGet(d, key, default) == IF key \in DOMAIN d THEN d[key] ELSE default

\* The weighted sum of lines 176-183, in units of 1/One.
OverallScore(weights, sem, skill, exp, loc, sal, comp) ==
    DictGet(weights, "semantic_score", 30) * sem
        + DictGet(weights, "skill_match", 25) * skill
        + DictGet(weights, "experience_match", 20) * exp
        + DictGet(weights, "location_match", 10) * loc
        + DictGet(weights, "salary_match", 10) * sal
        + DictGet(weights, "company_match", 5) * comp

_calculate_match_score(weights, user, job, seed, encOk) ==
    LET semantic_score == _calculate_semantic_score(user, job, encOk)
        sk == _calculate_skill_match(user, job, seed)
        experience_match_score == _calculate_experience_match(user, job)
        location_match_score == _calculate_location_match(user, job)
        salary_match_score == _calculate_salary_match(user, job)
        company_match_score == _calculate_company_match(user, job)
    IN  [job_id |-> job.id,
         overall_score |-> OverallScore(weights, semantic_score, sk[1],
                               experience_match_score, location_match_score,
                               salary_match_score, company_match_score),
         semantic_score |-> semantic_score,
         skill_match_score |-> sk[1],
         experience_match_score |-> experience_match_score,
         location_match_score |-> location_match_score,
         salary_match_score |-> salary_match_score,
         company_match_score |-> company_match_score,
         matched_skills |-> sk[2],
         missing_skills |-> sk[3],
         reasons |-> _generate_match_reasons(semantic_score, sk[1],
                         experience_match_score, sk[2], job)]

(***************************************************************************)
(* Bounds of the model.                                                    *)
(***************************************************************************)
NumProcs == 2
NumJobs == 2
MaxRuns == 2

Procs == 1..NumProcs
Jobs == 1..NumJobs

\* user_profiles holds users 1 and 2; id 3 is asked for and not there.
Users == {1, 2}
UserIds == Users \cup {3}
\* db.query(UserProfile).first()
FirstUser == 1

\* top_k as the callers leave it (the default) and as a caller may pass it.
DefaultTopK == 50
TopKs == {1, DefaultTopK}

\* matching.weights / matching.thresholds of settings.yml: absent (every
\* .get() falls back to its default), or set by the operator.
Settings ==
    {[weights |-> <<>>, thresholds |-> <<>>],
     [weights |-> [semantic_score |-> 50, skill_match |-> 50],
      thresholds |-> [minimum_match_score |-> (7 * One) \div 10]]}

(***************************************************************************)
(* The rows of user_profiles and jobs the model runs on.                   *)
(***************************************************************************)
Profile(u, ver) ==
    IF u = 1 /\ ver = 1 THEN
        [id |-> 1, text |-> 1, skills |-> <<"Python", "SQL">>,
         experience_years |-> 4, preferred_locations |-> << <<1>> >>,
         preferred_remote |-> "flexible", preferred_company_size |-> <<"startup">>,
         preferred_salary_min |-> 100, preferred_salary_max |-> 130]
    ELSE IF u = 1 THEN
        [id |-> 1, text |-> 2, skills |-> <<"Python", "React", "SQL", "java">>,
         experience_years |-> 8, preferred_locations |-> << <<1>> >>,
         preferred_remote |-> "flexible", preferred_company_size |-> <<"startup">>,
         preferred_salary_min |-> 100, preferred_salary_max |-> 0]
    ELSE
        [id |-> u, text |-> 3, skills |-> <<"java", "sql">>,
         experience_years |-> 0, preferred_locations |-> <<>>,
         preferred_remote |-> "", preferred_company_size |-> <<>>,
         preferred_salary_min |-> 0, preferred_salary_max |-> 0]

JobRow(j) ==
    IF j = 1 THEN
        [id |-> 1, text |-> 1, required_skills |-> <<"python", "sql">>,
         preferred_skills |-> <<>>, description |-> <<>>,
         experience_level |-> "mid", location |-> <<1, 2>>,
         remote_option |-> "hybrid", salary_min |-> 120, salary_max |-> 150,
         has_company |-> TRUE, company_size |-> "startup", glassdoor_rating |-> 40]
    ELSE IF j = 2 THEN
        [id |-> 2, text |-> 2, required_skills |-> <<"Python">>,
         preferred_skills |-> <<"react">>, description |-> <<"javascript", "interest">>,
         experience_level |-> "senior", location |-> <<3>>,
         remote_option |-> "remote", salary_min |-> 90, salary_max |-> 0,
         has_company |-> TRUE, company_size |-> "large", glassdoor_rating |-> 0]
    ELSE IF j = 3 THEN
        [id |-> 3, text |-> 5, required_skills |-> <<>>,
         preferred_skills |-> <<>>, description |-> <<>>,
         experience_level |-> "", location |-> <<>>,
         remote_option |-> "onsite", salary_min |-> 0, salary_max |-> 0,
         has_company |-> FALSE, company_size |-> "", glassdoor_rating |-> 0]
    ELSE
        [id |-> j, text |-> 2, required_skills |-> <<"sql", "java">>,
         preferred_skills |-> <<>>, description |-> <<"python">>,
         experience_level |-> "junior", location |-> <<1>>,
         remote_option |-> "", salary_min |-> 110, salary_max |-> 120,
         has_company |-> TRUE, company_size |-> "startup", glassdoor_rating |-> 50]

(***************************************************************************)
(* State.                                                                  *)
(***************************************************************************)
VARIABLES
    settings,    \* config.matching_weights / matching_thresholds, read at import
    jobState,    \* jobs table: per job "active" (is_active) or "inactive"
    profileVer,  \* user_profiles: which resume the first user has uploaded
    matches,     \* matches table: the committed rows
    dbLock,      \* the run whose session holds SQLite's write lock, 0 if none
    clock,       \* datetime.utcnow(), one tick per commit
    nruns,       \* pipeline runs started so far
    run,         \* per run: position in match_user_to_jobs and its locals
    seen,        \* what the request being answered has read (NoRead once answered)
    lastGood,    \* history: per user, the rows its last completed replace left
    lastInputs,  \* history: per user, what that run had read
    call,        \* one call of the weighted sum: its arguments and its result
    vs,          \* matcher.vs, the FaissStore of the process: index and ids
    disk,        \* the files ./data/embeddings.faiss and ./data/ids.pkl
    adding,      \* per reindex thread: its position in add and _save
    searching,   \* the match request: its position in search
    nadds,       \* reindex requests started so far
    inserted,    \* history: the ids self.ids.extend has been given so far
    batch,       \* the Celery worker: its position in refresh_job_matches_task
    scoring      \* one call of _calculate_match_score: its arguments and its result

dbVars == <<settings, jobState, profileVer, matches, dbLock, clock, nruns,
            run, seen, lastGood, lastInputs>>

vecVars == <<vs, disk, adding, searching, nadds, inserted>>

vars == <<dbVars, call, vecVars, batch, scoring>>

IdleRun ==
    [pc |-> "idle", user_id |-> 0, top_k |-> 0, seed |-> 0, user |-> 0,
     jobs |-> <<>>, encFail |-> {}, matches |-> <<>>, txDel |-> {},
     txNew |-> <<>>, result |-> <<>>, attempts |-> 0]

NoRead == [kind |-> "none", user_id |-> 0, rows |-> {}, expected |-> {}, inTx |-> FALSE]

DbInit(configs, js) ==
    /\ settings \in configs
    /\ jobState = [j \in Jobs |-> js]
    /\ profileVer = 1
    /\ matches = {}
    /\ dbLock = 0
    /\ clock = 1
    /\ nruns = 0
    /\ run = [p \in Procs |-> IdleRun]
    /\ seen = NoRead
    /\ lastGood = [u \in Users |-> {}]
    /\ lastInputs = [u \in Users |-> <<>>]

(***************************************************************************)
(* The matches table behind a Session of sessionmaker(autocommit=False) on *)
(* SQLite: a session's DELETE and INSERTs stay private to its transaction  *)
(* until commit(); the first write statement takes the database's write    *)
(* lock and a second writer waits for it (or times out: see Fail); close() *)
(* without commit() rolls the transaction back.                            *)
(***************************************************************************)
UserRows(tbl, u) == {m \in tbl : m.user_id = u}

\* Faulty variant: the DELETE is committed on its own (autocommit).
CommittedAfterDelete_autocommit(tbl, u) == {m \in tbl : m.user_id # u}

\* What other connections see of the table once a session has run its DELETE.
CommittedAfterDelete(tbl, u) == tbl

\* Faulty variant: nothing makes a second writer wait.
CanWrite_nolock(lock, p) == TRUE

\* A session may start writing when no other session holds the write lock.
CanWrite(lock, p) == lock = 0

\* Faulty variant: the DELETE has no filter and takes every user's rows.
DeletedIds_everyone(tbl, u) == {m.id : m \in tbl}

\* Faulty variant: the DELETE is filtered on the wrong column and matches no row.
DeletedIds_none(tbl, u) == {}

\* db.query(Match).filter(Match.user_id == user_id).delete(): the rows it removes
DeletedIds(tbl, u) == {m.id : m \in UserRows(tbl, u)}

\* INTEGER PRIMARY KEY without AUTOINCREMENT: the largest rowid in use, plus one.
NextRowId(tbl) == IF tbl = {} THEN 1 ELSE (CHOOSE i \in {m.id : m \in tbl} :
                                             \A k \in {m.id : m \in tbl} : k <= i) + 1

\* Faulty variant: salary_match_score is not passed and stays at 0.
MatchRow_noSalary(user_id, match_data, id, now) ==
    [id |-> id, user_id |-> user_id, job_id |-> match_data.job_id,
     overall_score |-> match_data.overall_score,
     semantic_score |-> match_data.semantic_score,
     skill_match_score |-> match_data.skill_match_score,
     experience_match_score |-> match_data.experience_match_score,
     location_match_score |-> match_data.location_match_score,
     salary_match_score |-> 0,
     company_match_score |-> match_data.company_match_score,
     matched_skills |-> match_data.matched_skills,
     missing_skills |-> match_data.missing_skills,
     reasons |-> match_data.reasons,
     is_viewed |-> FALSE, is_saved |-> FALSE, created_at |-> now]

\* Match(user_id=..., job_id=..., ...) of lines 414-427 with the column
\* defaults of the model class, as the i-th INSERT of a flush.
MatchRow(user_id, match_data, id, now) ==
    [id |-> id, user_id |-> user_id, job_id |-> match_data.job_id,
     overall_score |-> match_data.overall_score,
     semantic_score |-> match_data.semantic_score,
     skill_match_score |-> match_data.skill_match_score,
     experience_match_score |-> match_data.experience_match_score,
     location_match_score |-> match_data.location_match_score,
     salary_match_score |-> match_data.salary_match_score,
     company_match_score |-> match_data.company_match_score,
     matched_skills |-> match_data.matched_skills,
     missing_skills |-> match_data.missing_skills,
     reasons |-> match_data.reasons,
     is_viewed |-> FALSE, is_saved |-> FALSE, created_at |-> now]

\* The rows a commit inserts after deleting the rows `del`, and the table it leaves.
InsertedRows(tbl, del, user_id, new, now) ==
    LET base == NextRowId({m \in tbl : m.id \notin del})
    IN  {MatchRow(user_id, new[i], base + i - 1, now) : i \in 1..Len(new)}

\* Faulty variant: the commit inserts and leaves the old rows in place.
Committed_keepsOld(tbl, del, user_id, new, now) ==
    tbl \cup InsertedRows(tbl, {}, user_id, new, now)

Committed(tbl, del, user_id, new, now) ==
    {m \in tbl : m.id \notin del} \cup InsertedRows(tbl, del, user_id, new, now)

\* Faulty variant: closing the session flushes and commits what is pending.
ClosedWithoutCommit_commits(tbl, del, user_id, new, now) ==
    Committed(tbl, del, user_id, new, now)

\* db.close() in the finally clause, reached by an exception: rollback.
ClosedWithoutCommit(tbl, del, user_id, new, now) == tbl

(***************************************************************************)
(* match_user_to_jobs, lines 136-149: score, filter, sort, truncate.       *)
(***************************************************************************)
\* list.sort(key=overall_score, reverse=True) is stable: x goes behind every
\* element already placed whose score is at least its own.
InsertByScore(s, x) ==
    LET n == Cardinality({i \in 1..Len(s) : s[i].overall_score >= x.overall_score})
    IN  SubSeq(s, 1, n) \o <<x>> \o SubSeq(s, n + 1, Len(s))

RECURSIVE SortByScore(_)
SortByScore(s) ==
    IF s = <<>> THEN <<>>
    ELSE InsertByScore(SortByScore(SubSeq(s, 1, Len(s) - 1)), s[Len(s)])

MinimumMatchScore(thresholds) ==
    DictGet(thresholds, "minimum_match_score", (6 * One) \div 10)

MeetsThreshold(m, thresholds) == m.overall_score >= MinimumMatchScore(thresholds)

\* The list `matches` after line 144.
RankedMatches(cfg, user, jobs, seed, encFail) ==
    LET scored == [i \in 1..Len(jobs) |->
                      _calculate_match_score(cfg.weights, user, JobRow(jobs[i]),
                                             seed, jobs[i] \notin encFail)]
        kept == SelectSeq(scored, LAMBDA m : MeetsThreshold(m, cfg.thresholds))
    IN  SortByScore(kept)

\* The whole ranked list, with no slice taken.
TopK_all(ms, top_k) == ms

\* matches[:top_k]
TopK(ms, top_k) == Take(ms, top_k)

\* Faulty variant: the query is not filtered on is_active.
ActiveJobs_all(js) == [j \in 1..NumJobs |-> j]

\* db.query(Job).filter(Job.is_active == True).all(), in rowid order
RECURSIVE ActiveJobsFrom(_, _)
ActiveJobsFrom(js, j) ==
    IF j > NumJobs THEN <<>>
    ELSE (IF js[j] = "active" THEN <<j>> ELSE <<>>) \o ActiveJobsFrom(js, j + 1)

ActiveJobs(js) == ActiveJobsFrom(js, 1)

\* The jobs for which _calculate_semantic_score ends in its except branch:
\* none, one job (its text does not encode) or all (the profile text does
\* not encode, or the encoder is down).
\* The one job is the first, which is as good as any other.
EncFailChoices(jobs) ==
    {{}, Range(jobs)} \cup (IF jobs = <<>> THEN {} ELSE {{jobs[1]}})

(***************************************************************************)
(* The files of a FaissStore and the store its constructor builds on them. *)
(* A file is absent, whole, or opened for writing and not yet written out. *)
(* EnhancedJobMatcher.__init__ builds such a store (line 18); the pipeline *)
(* never consults it: line 134 takes every active job.                     *)
(***************************************************************************)
EmptyStore == [index |-> <<>>, ids |-> <<>>]

NoFile == [exists |-> FALSE, whole |-> FALSE, items |-> <<>>]
Opened == [exists |-> TRUE, whole |-> FALSE, items |-> <<>>]
Written(items) == [exists |-> TRUE, whole |-> TRUE, items |-> items]

NoFiles == [index |-> NoFile, ids |-> NoFile]

\* FaissStore.__init__: both files present and readable, or an empty store
FaissStore_init(d) ==
    IF d.index.exists /\ d.ids.exists /\ d.index.whole /\ d.ids.whole
    THEN [index |-> d.index.items, ids |-> d.ids.items]
    ELSE EmptyStore

\* Faulty variant: the run scores only the jobs the store holds an id for.
CandidateJobs_shortlist(store, jobs) ==
    SelectSeq(jobs, LAMBDA j : <<"job", j>> \in Range(store.ids))

\* The jobs a run scores, given the matcher's vector store and the active jobs
CandidateJobs(store, jobs) == jobs

(***************************************************************************)
(* One pipeline run: a call of match_user_to_jobs by a web request or a    *)
(* worker.  Runs of different requests interleave between statements that  *)
(* touch the database.                                                     *)
(***************************************************************************)
\* api_refresh_matches, and any other caller: match_user_to_jobs(user_id, top_k)
MatchUserToJobs(p, u, k, sd) ==
    /\ run[p].pc = "idle"
    /\ nruns < MaxRuns
    /\ run' = [run EXCEPT ![p] = [IdleRun EXCEPT !.pc = "fetch", !.user_id = u,
                                                 !.top_k = k, !.seed = sd]]
    /\ nruns' = nruns + 1
    /\ seen' = NoRead
    /\ UNCHANGED <<settings, jobState, profileVer, matches, dbLock, clock, lastGood, lastInputs,
                   call, scoring, vecVars, batch>>

\* upload_resume: the first user's profile is replaced and committed, then
\* match_user_to_jobs(user.id) runs with the default top_k.
UploadResume(p, sd) ==
    /\ run[p].pc = "idle"
    /\ nruns < MaxRuns
    /\ profileVer' = 3 - profileVer
    /\ run' = [run EXCEPT ![p] = [IdleRun EXCEPT !.pc = "fetch", !.user_id = FirstUser,
                                                 !.top_k = DefaultTopK, !.seed = sd]]
    /\ nruns' = nruns + 1
    /\ seen' = NoRead
    /\ UNCHANGED <<settings, jobState, matches, dbLock, clock, lastGood, lastInputs,
                   call, scoring, vecVars, batch>>

\* lines 129-134
Fetch(p) ==
    /\ run[p].pc = "fetch"
    /\ run' = [run EXCEPT ![p] =
                 IF run[p].user_id \notin Users
                 THEN [@ EXCEPT !.pc = "done", !.result = <<>>]
                 ELSE [@ EXCEPT !.pc = "score",
                                !.user = IF run[p].user_id = FirstUser THEN profileVer ELSE 1,
                                !.jobs = CandidateJobs(FaissStore_init(disk),
                                                       ActiveJobs(jobState))]]
    /\ seen' = NoRead
    /\ UNCHANGED <<settings, jobState, profileVer, matches, dbLock, clock, nruns, lastGood, lastInputs,
                   call, scoring, vecVars, batch>>

\* lines 136-144
Score(p, ef) ==
    /\ run[p].pc = "score"
    /\ ef \in EncFailChoices(run[p].jobs)
    /\ run' = [run EXCEPT ![p] =
                 [@ EXCEPT !.pc = "store", !.encFail = ef, !.attempts = @ + 1,
                           !.matches = RankedMatches(settings,
                                           Profile(run[p].user_id, run[p].user),
                                           run[p].jobs, run[p].seed, ef)]]
    /\ seen' = NoRead
    /\ UNCHANGED <<settings, jobState, profileVer, matches, dbLock, clock, nruns, lastGood, lastInputs,
                   call, scoring, vecVars, batch>>

\* _store_matches line 410: the DELETE opens the transaction.
StoreDelete(p) ==
    /\ run[p].pc = "store"
    /\ CanWrite(dbLock, p)
    /\ dbLock' = p
    /\ matches' = CommittedAfterDelete(matches, run[p].user_id)
    /\ run' = [run EXCEPT ![p] =
                 [@ EXCEPT !.pc = "insert",
                           !.txDel = DeletedIds(matches, run[p].user_id)]]
    /\ seen' = NoRead
    /\ UNCHANGED <<settings, jobState, profileVer, clock, nruns, lastGood, lastInputs,
                   call, scoring, vecVars, batch>>

\* _store_matches lines 413-428: one db.add(match), flushed at commit.
StoreAdd(p) ==
    /\ run[p].pc = "insert"
    /\ Len(run[p].txNew) < Len(TopK(run[p].matches, run[p].top_k))
    /\ run' = [run EXCEPT ![p] =
                 [@ EXCEPT !.txNew = Append(@, run[p].matches[Len(run[p].txNew) + 1])]]
    /\ seen' = NoRead
    /\ UNCHANGED <<settings, jobState, profileVer, matches, dbLock, clock, nruns, lastGood, lastInputs,
                   call, scoring, vecVars, batch>>

\* _store_matches line 430 and the return of line 149.
Commit(p) ==
    /\ run[p].pc = "insert"
    /\ Len(run[p].txNew) = Len(TopK(run[p].matches, run[p].top_k))
    /\ matches' = Committed(matches, run[p].txDel, run[p].user_id, run[p].txNew, clock)
    /\ clock' = clock + 1
    /\ dbLock' = IF dbLock = p THEN 0 ELSE dbLock
    /\ run' = [run EXCEPT ![p] =
                 [@ EXCEPT !.pc = "done", !.result = TopK(run[p].matches, run[p].top_k)]]
    /\ lastGood' = [lastGood EXCEPT ![run[p].user_id] =
                      InsertedRows(matches, run[p].txDel, run[p].user_id,
                                   run[p].txNew, clock)]
    /\ lastInputs' = [lastInputs EXCEPT ![run[p].user_id] =
                        <<[user |-> run[p].user, jobs |-> run[p].jobs,
                           top_k |-> run[p].top_k, encFail |-> run[p].encFail]>>]
    /\ seen' = NoRead
    /\ UNCHANGED <<settings, jobState, profileVer, nruns,
                   call, scoring, vecVars, batch>>

\* An exception anywhere in the try block (a query failing, a scoring error,
\* "database is locked", a failed flush): nothing catches it, and the finally
\* clause closes the session, which rolls its transaction back.  txDel and
\* txNew stay in the record as what the lost transaction had done.
Fail(p) ==
    /\ run[p].pc \in {"fetch", "score", "store", "insert"}
    /\ dbLock' = IF dbLock = p THEN 0 ELSE dbLock
    /\ matches' = ClosedWithoutCommit(matches, run[p].txDel, run[p].user_id,
                                      run[p].txNew, clock)
    /\ run' = [run EXCEPT ![p] = [@ EXCEPT !.pc = "failed"]]
    /\ seen' = NoRead
    /\ UNCHANGED <<settings, jobState, profileVer, clock, nruns, lastGood, lastInputs,
                   call, scoring, vecVars, batch>>

\* The caller has its answer; the process takes its next request.
Return(p) ==
    /\ run[p].pc \in {"done", "failed"}
    /\ run' = [run EXCEPT ![p] = IdleRun]
    /\ seen' = NoRead
    /\ UNCHANGED <<settings, jobState, profileVer, matches, dbLock, clock, nruns, lastGood, lastInputs,
                   call, scoring, vecVars, batch>>

(***************************************************************************)
(* The jobs table changes under the pipeline.                              *)
(***************************************************************************)
\* JobAggregator.cleanup_old_jobs: a job past the cutoff is marked inactive
cleanup_old_jobs(j) ==
    /\ jobState[j] = "active"
    /\ dbLock = 0
    /\ jobState' = [jobState EXCEPT ![j] = "inactive"]
    /\ seen' = NoRead
    /\ UNCHANGED <<settings, profileVer, matches, dbLock, clock, nruns, run, lastGood, lastInputs,
                   call, scoring, vecVars, batch>>

(***************************************************************************)
(* Readers: each is one SELECT on its own session.                         *)
(***************************************************************************)
WriterOf(u) == \E p \in Procs : run[p].pc = "insert" /\ run[p].user_id = u

\* .order_by(overall_score.desc()).limit(n): the n best rows
LimitRows(rows, n) ==
    IF Cardinality(rows) <= n THEN rows
    ELSE CHOOSE S \in SUBSET rows :
             /\ Cardinality(S) = n
             /\ \A a \in S, b \in rows \ S : a.overall_score >= b.overall_score

\* GET /matches, first page (per_page = 20), with or without min_score
job_matches(min_score) ==
    /\ seen' = [kind |-> "matches", user_id |-> FirstUser,
                rows |-> LimitRows({m \in UserRows(matches, FirstUser) :
                                       min_score = 0 \/ m.overall_score >= min_score}, 20),
                expected |-> LimitRows({m \in lastGood[FirstUser] :
                                       min_score = 0 \/ m.overall_score >= min_score}, 20),
                inTx |-> WriterOf(FirstUser)]
    /\ UNCHANGED <<settings, jobState, profileVer, matches, dbLock, clock, nruns, run,
                   lastGood, lastInputs,
                   call, scoring, vecVars, batch>>

\* GET /: recent_matches, the ten best rows of the first user
dashboard ==
    /\ seen' = [kind |-> "dashboard", user_id |-> FirstUser,
                rows |-> LimitRows(UserRows(matches, FirstUser), 10),
                expected |-> LimitRows(lastGood[FirstUser], 10),
                inTx |-> WriterOf(FirstUser)]
    /\ UNCHANGED <<settings, jobState, profileVer, matches, dbLock, clock, nruns, run,
                   lastGood, lastInputs,
                   call, scoring, vecVars, batch>>

(***************************************************************************)
(* The weighted sum on its own: _calculate_match_score lines 176-183 on    *)
(* given sub-scores, under weights settings.yml may hold.                  *)
(***************************************************************************)
SubScores == {0, Scale \div 2, Scale}

\* matching.weights of settings.yml: absent, the second of Settings, every
\* weight 1.0, every weight 0.
WeightChoices ==
    {<<>>,
     [semantic_score |-> WUnit \div 2, skill_match |-> WUnit \div 2],
     [semantic_score |-> WUnit, skill_match |-> WUnit, experience_match |-> WUnit,
      location_match |-> WUnit, salary_match |-> WUnit, company_match |-> WUnit],
     [semantic_score |-> 0, skill_match |-> 0, experience_match |-> 0,
      location_match |-> 0, salary_match |-> 0, company_match |-> 0]}

NoCall ==
    [weights |-> <<>>, scores |-> [i \in 1..6 |-> 0], done |-> FALSE, overall_score |-> 0]

ScoreInit ==
    call \in [weights : WeightChoices, scores : [1..6 -> SubScores],
              done : {FALSE}, overall_score : {0}]

\* lines 176-183
CalculateOverallScore ==
    /\ ~call.done
    /\ call' = [call EXCEPT !.done = TRUE,
                            !.overall_score =
                                OverallScore(call.weights, call.scores[1], call.scores[2],
                                             call.scores[3], call.scores[4],
                                             call.scores[5], call.scores[6])]
    /\ UNCHANGED <<dbVars, scoring, vecVars, batch>>

(***************************************************************************)
(* _calculate_match_score on its own: one call on a user row and a job     *)
(* row.  The rows are those of user 1 and job 1 with the columns of one    *)
(* sub-score at a time set to each value of the model.                     *)
(***************************************************************************)
MaxYears == 22

SkillLists ==
    {<<>>, <<"python", "react">>, <<"Python", "SQL">>, <<"java">>}
RequiredSkillLists == {<<>>, <<"python", "sql">>, <<"Python">>}
PreferredSkillLists == {<<>>, <<"react">>}
Descriptions == {<<>>, <<"javascript", "interest">>, <<"python">>}

\* Job.experience_level is a free string: the six known tags, none, another.
Levels == {"entry", "junior", "mid", "senior", "lead", "principal", "", "staff"}

\* Salaries in thousands; 0 is None.
SalaryValues == {0, 80, 90, 99, 100, 105, 120, 130, 140, 150, 160}

Texts == 1..7

NoScored ==
    [user |-> <<>>, job |-> <<>>, seed |-> 0, encOk |-> TRUE, done |-> FALSE,
     result |-> <<>>]

ScoredCall(user, job, seed, encOk) ==
    [user |-> user, job |-> job, seed |-> seed, encOk |-> encOk, done |-> FALSE,
     result |-> <<>>]

ScoreInputs ==
    {ScoredCall([Profile(1, 1) EXCEPT !.skills = sk],
                [JobRow(1) EXCEPT !.required_skills = rq, !.preferred_skills = pf,
                                  !.description = ds], seed, TRUE) :
         sk \in SkillLists, rq \in RequiredSkillLists, pf \in PreferredSkillLists,
         ds \in Descriptions, seed \in {0, 1}}
    \cup {ScoredCall([Profile(1, 1) EXCEPT !.experience_years = y],
                     [JobRow(1) EXCEPT !.experience_level = lv], 0, TRUE) :
              y \in 0..MaxYears, lv \in Levels}
    \cup {ScoredCall([Profile(1, 1) EXCEPT !.preferred_salary_min = umin,
                                           !.preferred_salary_max = umax],
                     [JobRow(1) EXCEPT !.salary_min = jmin, !.salary_max = jmax],
                     0, TRUE) :
              umin \in {0, 100}, umax \in {0, 100, 130},
              jmin \in SalaryValues, jmax \in SalaryValues}
    \cup {ScoredCall([Profile(1, 1) EXCEPT !.text = ut], [JobRow(1) EXCEPT !.text = jt],
                     0, ok) :
              ut \in Texts, jt \in Texts, ok \in BOOLEAN}

\* lines 154-204
CalculateMatchScore ==
    /\ ~scoring.done
    /\ scoring' = [scoring EXCEPT !.done = TRUE,
                                !.result = _calculate_match_score(
                                               <<>>, scoring.user, scoring.job,
                                               scoring.seed, scoring.encOk)]
    /\ UNCHANGED <<dbVars, call, vecVars, batch>>

(***************************************************************************)
(* FaissStore (embeddings/vector_store.py) and its two callers in          *)
(* matcher/matcher.py.  The index is the sequence of its vectors, position *)
(* i of the sequence being FAISS label i - 1.  A file is absent, whole, or *)
(* opened for writing and not yet written out.                             *)
(***************************************************************************)
MaxAdds == 2

\* The threads of the server that can serve POST /reindex_jobs/ at a time
NumAdders == 2
Adders == 1..NumAdders

\* The profile texts searched for, and the top_k values asked
Queries == {2, 4, 5}
SearchTopKs == {1, 2}

\* db.query(Job).all(), in rowid order: active or not
RECURSIVE AllJobsFrom(_, _)
AllJobsFrom(js, j) ==
    IF j > NumJobs THEN <<>>
    ELSE (IF js[j] # "absent" THEN <<j>> ELSE <<>>) \o AllJobsFrom(js, j + 1)

\* f"job:{j.id}"
JobKey(j) == <<"job", j>>

\* The distance FAISS reports with label -1
MinusInf == -(Scale * Scale)

\* index.search(vec, top_k) of an IndexFlatIP: top_k (label, inner product)
\* pairs, best first, padded with label -1 when the index holds fewer.  The
\* order of equal products is FAISS's choice: every order is an outcome.
TopHits(index, qv, k) ==
    LET n == Len(index)
        m == Min(k, n)
        dist(i) == Dot(index[i + 1], qv)
        picks == {s \in [1..m -> 0..(n - 1)] :
                     /\ \A a, b \in 1..m :
                            a < b => s[a] # s[b] /\ dist(s[a]) >= dist(s[b])
                     /\ \A i \in 0..(n - 1) :
                            (\A a \in 1..m : s[a] # i) =>
                                \A a \in 1..m : dist(i) <= dist(s[a])}
    IN  {[j \in 1..k |-> IF j <= m THEN [idx |-> s[j], dist |-> dist(s[j])]
                                   ELSE [idx |-> -1, dist |-> MinusInf]] : s \in picks}

\* Faulty variant: the FAISS label is taken for the job's id.
MapHit_label(ids, hit) ==
    IF hit.idx < 0 THEN <<>>
    ELSE <<[id |-> <<"job", hit.idx>>, score |-> hit.dist]>>

\* search lines 43-45 for one (dist, idx) pair, on the ids list as it is now
MapHit(ids, hit) ==
    IF hit.idx < 0 \/ hit.idx >= Len(ids) THEN <<>>
    ELSE <<[id |-> ids[hit.idx + 1], score |-> hit.dist]>>

RECURSIVE MapHits(_, _)
MapHits(ids, hits) ==
    IF hits = <<>> THEN <<>> ELSE MapHit(ids, Head(hits)) \o MapHits(ids, Tail(hits))

\* What search(vec, top_k)[0] can return on a store nothing else touches
SearchResults(store, q, k) ==
    IF store.index = <<>> THEN {<<>>}
    ELSE {MapHits(store.ids, hits) : hits \in TopHits(store.index, Encode(q), k)}

\* resume/profile.py: the profile dict of a query text, whose skills are the
\* DEFAULT_SKILLS the text names
build_profile_from_text(q) ==
    [raw |-> q, skills |-> IF q = 2 THEN <<"python", "sql">> ELSE <<>>]

\* sorted(matches, key=score, reverse=True) is stable
InsertByFinalScore(s, x) ==
    LET n == Cardinality({i \in 1..Len(s) : s[i].score >= x.score})
    IN  SubSeq(s, 1, n) \o <<x>> \o SubSeq(s, n + 1, Len(s))

RECURSIVE SortByFinalScore(_)
SortByFinalScore(s) ==
    IF s = <<>> THEN <<>>
    ELSE InsertByFinalScore(SortByFinalScore(SubSeq(s, 1, Len(s) - 1)), s[Len(s)])

\* matcher.match_profile lines 30-64 on the row search returned.  An inner
\* product is in units of 1/25, semantic_score in 1/Scale, score in
\* 1/(10 * Scale); the job's text is its description.
match_profile(results, profile, js) ==
    LET found == SelectSeq(results,
                           LAMBDA r : r.id[2] \in DOMAIN js /\ js[r.id[2]] # "absent")
        entry(r) ==
            LET job == JobRow(r.id[2])
                reasons == SelectSeq(profile.skills,
                               LAMBDA x : \E i \in 1..Len(job.description) :
                                              SkillInWord(Lower(x), job.description[i]))
                skill_overlap == Len(reasons)
                semantic_score == (r.score * Scale) \div 25
                overlap_score ==
                    IF profile.skills # <<>>
                    THEN Min(Scale, (skill_overlap * Scale) \div Max(1, Len(profile.skills)))
                    ELSE 0
            IN  [job_id |-> job.id, score |-> 7 * semantic_score + 3 * overlap_score,
                 semantic_score |-> semantic_score, skill_overlap |-> skill_overlap,
                 reasons |-> reasons]
    IN  SortByFinalScore([i \in 1..Len(found) |-> entry(found[i])])

IdleAdd ==
    [pc |-> "idle", vecs |-> <<>>, ids |-> <<>>, memBefore |-> EmptyStore,
     memAfter |-> EmptyStore, diskBefore |-> NoFiles, diskAfter |-> NoFiles]

IdleSearch ==
    [pc |-> "idle", q |-> 0, k |-> 0, hits |-> <<>>, row |-> <<>>, allowed |-> {},
     matches |-> <<>>]

IdleBatch ==
    [pc |-> "idle", users |-> <<>>, i |-> 0, total_matches |-> 0, completed |-> {},
     retries |-> 0, cancelled |-> FALSE]

VecOff ==
    /\ batch = IdleBatch
    /\ vs = EmptyStore
    /\ disk = NoFiles
    /\ adding = [t \in Adders |-> IdleAdd]
    /\ searching = IdleSearch
    /\ nadds = 0
    /\ inserted = {}

otherDbVars ==
    <<settings, profileVer, matches, dbLock, clock, nruns, run, seen, lastGood,
      lastInputs>>

\* JobAggregator.save_job_from_source: a new row of the jobs table
save_job_from_source(j) ==
    /\ jobState[j] = "absent"
    /\ dbLock = 0
    /\ \A i \in 1..(j - 1) : jobState[i] # "absent"
    /\ jobState' = [jobState EXCEPT ![j] = "active"]
    /\ UNCHANGED <<otherDbVars, call, scoring, vecVars, batch>>

\* POST /reindex_jobs/: embed_and_store_jobs lines 13-23, up to the call of
\* vs.add; with no job there is nothing to add.
embed_and_store_jobs(t) ==
    /\ adding[t].pc = "idle"
    /\ nadds < MaxAdds
    /\ nadds' = nadds + 1
    /\ LET jobs == AllJobsFrom(jobState, 1)
           vecs == [i \in 1..Len(jobs) |-> Encode(JobRow(jobs[i]).text)]
           ids == [i \in 1..Len(jobs) |-> JobKey(jobs[i])]
           after == [index |-> vs.index \o vecs, ids |-> vs.ids \o ids]
       IN  IF jobs = <<>> THEN UNCHANGED <<adding, searching>>
           ELSE /\ adding' = [adding EXCEPT ![t] =
                                 [pc |-> "add", vecs |-> vecs, ids |-> ids,
                                  memBefore |-> vs, memAfter |-> after,
                                  diskBefore |-> disk,
                                  diskAfter |-> [index |-> Written(after.index),
                                                 ids |-> Written(after.ids)]]]
                /\ searching' =
                       IF searching.pc = "map"
                       THEN [searching EXCEPT !.allowed =
                                @ \cup SearchResults(after, searching.q, searching.k)]
                       ELSE searching
    /\ UNCHANGED <<dbVars, call, scoring, batch, vs, disk, inserted>>

\* add line 30: self.index.add(vecs)
IndexAdd(t) ==
    /\ adding[t].pc = "add"
    /\ vs' = [vs EXCEPT !.index = @ \o adding[t].vecs]
    /\ adding' = [adding EXCEPT ![t].pc = "extend"]
    /\ UNCHANGED <<dbVars, call, scoring, batch, disk, searching, nadds, inserted>>

\* add line 31: self.ids.extend(ids)
IdsExtend(t) ==
    /\ adding[t].pc = "extend"
    /\ vs' = [vs EXCEPT !.ids = @ \o adding[t].ids]
    /\ inserted' = inserted \cup Range(adding[t].ids)
    /\ adding' = [adding EXCEPT ![t].pc = "save"]
    /\ UNCHANGED <<dbVars, call, scoring, batch, disk, searching, nadds>>

\* _save line 50: faiss.write_index opens the file, which empties it ...
WriteIndexOpen(t) ==
    /\ adding[t].pc = "save"
    /\ disk' = [disk EXCEPT !.index = Opened]
    /\ adding' = [adding EXCEPT ![t].pc = "write_index"]
    /\ UNCHANGED <<dbVars, call, scoring, batch, vs, searching, nadds, inserted>>

\* ... and writes the index out.
WriteIndexDone(t) ==
    /\ adding[t].pc = "write_index"
    /\ disk' = [disk EXCEPT !.index = Written(vs.index)]
    /\ adding' = [adding EXCEPT ![t].pc = "open_ids"]
    /\ UNCHANGED <<dbVars, call, scoring, batch, vs, searching, nadds, inserted>>

\* _save line 51: open(self.id_path, "wb")
IdsOpen(t) ==
    /\ adding[t].pc = "open_ids"
    /\ disk' = [disk EXCEPT !.ids = Opened]
    /\ adding' = [adding EXCEPT ![t].pc = "dump"]
    /\ UNCHANGED <<dbVars, call, scoring, batch, vs, searching, nadds, inserted>>

\* _save line 52: pickle.dump(self.ids, f), and the file is closed
IdsDump(t) ==
    /\ adding[t].pc = "dump"
    /\ disk' = [disk EXCEPT !.ids = Written(vs.ids)]
    /\ adding' = [adding EXCEPT ![t].pc = "idle"]
    /\ UNCHANGED <<dbVars, call, scoring, batch, vs, searching, nadds, inserted>>

InFlight == {"add", "extend", "save", "write_index", "open_ids", "dump"}

\* The process dies inside add: what it held in memory is gone, the files
\* stay as they are.  adding keeps what the interrupted calls were writing.
Crash ==
    /\ \E t \in Adders : adding[t].pc \in InFlight
    /\ adding' = [t \in Adders |->
                     IF adding[t].pc \in InFlight
                     THEN [adding[t] EXCEPT !.pc = "crashed"] ELSE adding[t]]
    /\ vs' = EmptyStore
    /\ searching' = IdleSearch
    /\ UNCHANGED <<dbVars, call, scoring, batch, disk, nadds, inserted>>

\* The process starts again: matcher.py line 10, vs = FaissStore(d=VECTOR_DIM)
Restart ==
    /\ \E t \in Adders : adding[t].pc = "crashed"
    /\ vs' = FaissStore_init(disk)
    /\ adding' = [t \in Adders |->
                     IF adding[t].pc = "crashed"
                     THEN [adding[t] EXCEPT !.pc = "idle"] ELSE adding[t]]
    /\ UNCHANGED <<dbVars, call, scoring, batch, disk, searching, nadds, inserted>>

\* The complete states of the store a search starting now may answer from:
\* the store as it is, and while an add is between its two appends, the
\* store before and after that add.
CompleteStores ==
    LET between == {t \in Adders : adding[t].pc \in {"add", "extend"}}
    IN  IF between = {} THEN {vs}
        ELSE UNION {{adding[t].memBefore, adding[t].memAfter} : t \in between}

\* POST /match/: match_profile line 28, search lines 35-39
SearchBegin(q, k) ==
    /\ searching.pc = "idle"
    /\ \A t \in Adders : adding[t].pc # "crashed"
    /\ LET allowed == UNION {SearchResults(st, q, k) : st \in CompleteStores}
       IN  IF vs.index = <<>>
           THEN searching' = [pc |-> "done", q |-> q, k |-> k, hits |-> <<>>,
                              row |-> <<>>, allowed |-> allowed, matches |-> <<>>]
           ELSE \E hits \in TopHits(vs.index, Encode(q), k) :
                    searching' = [pc |-> "map", q |-> q, k |-> k, hits |-> hits,
                                  row |-> <<>>, allowed |-> allowed, matches |-> <<>>]
    /\ UNCHANGED <<dbVars, call, scoring, batch, vs, disk, adding, nadds, inserted>>

\* search lines 43-45: one turn of the inner loop
SearchMap ==
    /\ searching.pc = "map"
    /\ searching.hits # <<>>
    /\ searching' = [searching EXCEPT !.hits = Tail(@),
                                      !.row = @ \o MapHit(vs.ids, Head(searching.hits))]
    /\ UNCHANGED <<dbVars, call, scoring, batch, vs, disk, adding, nadds, inserted>>

\* search lines 46-47, and the loop of match_profile over the row
SearchReturn ==
    /\ searching.pc = "map"
    /\ searching.hits = <<>>
    /\ searching' = [searching EXCEPT
           !.pc = "done",
           !.matches = match_profile(searching.row, build_profile_from_text(searching.q),
                                     jobState)]
    /\ UNCHANGED <<dbVars, call, scoring, batch, vs, disk, adding, nadds, inserted>>

\* match_profile has its rows; the request is answered
SearchEnd ==
    /\ searching.pc = "done"
    /\ searching' = IdleSearch
    /\ UNCHANGED <<dbVars, call, scoring, batch, vs, disk, adding, nadds, inserted>>

MinScores == {0, (8 * One) \div 10}

\* The seeds two worker processes can have: the same order of a set, or not.
Seeds == {0, 1}

\* settings.yml without a matching section
DefaultSettings == [weights |-> <<>>, thresholds |-> <<>>]

(***************************************************************************)
(* Spec: Procs server processes on one database file, each serving one     *)
(* request at a time, on the default settings and a working encoder.       *)
(***************************************************************************)
DbNext ==
    \/ \E p \in Procs, u \in UserIds, k \in TopKs : MatchUserToJobs(p, u, k, 0)
    \/ \E p \in Procs : UploadResume(p, 0)
    \/ \E p \in Procs : Fetch(p)
    \/ \E p \in Procs : Score(p, {})
    \/ \E p \in Procs : StoreDelete(p)
    \/ \E p \in Procs : StoreAdd(p)
    \/ \E p \in Procs : Commit(p)
    \/ \E p \in Procs : Fail(p)
    \/ \E p \in Procs : Return(p)
    \/ \E j \in Jobs : cleanup_old_jobs(j)
    \/ \E ms \in MinScores : job_matches(ms)
    \/ dashboard

Init == DbInit({DefaultSettings}, "active") /\ call = NoCall /\ VecOff /\ scoring = NoScored

Spec == Init /\ [][DbNext]_vars

(***************************************************************************)
(* SpecSeq: one process, so runs follow one another, under every           *)
(* setting, seed and encoder outcome of the model.                         *)
(***************************************************************************)
SeqNext ==
    \/ \E u \in UserIds, k \in TopKs, sd \in Seeds : MatchUserToJobs(1, u, k, sd)
    \/ \E sd \in Seeds : UploadResume(1, sd)
    \/ Fetch(1)
    \/ \E ef \in SUBSET Jobs : Score(1, ef)
    \/ StoreDelete(1)
    \/ StoreAdd(1)
    \/ Commit(1)
    \/ Fail(1)
    \/ Return(1)
    \/ \E j \in Jobs : cleanup_old_jobs(j)
    \/ \E ms \in MinScores : job_matches(ms)
    \/ dashboard

SeqInit == DbInit(Settings, "active") /\ call = NoCall /\ VecOff /\ scoring = NoScored

SpecSeq == SeqInit /\ [][SeqNext]_vars

(***************************************************************************)
(* SpecScore: the weighted sum applied to every choice of six sub-scores   *)
(* and weights of the model.                                               *)
(***************************************************************************)
ScoreNext == CalculateOverallScore

ScoreSpecInit ==
    DbInit({DefaultSettings}, "active") /\ ScoreInit /\ VecOff /\ scoring = NoScored

SpecScore == ScoreSpecInit /\ [][ScoreNext]_vars

(***************************************************************************)
(* SpecMatchScore: _calculate_match_score applied to every pair of rows of *)
(* ScoreInputs.                                                            *)
(***************************************************************************)
MatchScoreNext == CalculateMatchScore

MatchScoreInit ==
    DbInit({DefaultSettings}, "active") /\ call = NoCall /\ VecOff /\ scoring \in ScoreInputs

SpecMatchScore == MatchScoreInit /\ [][MatchScoreNext]_vars

(***************************************************************************)
(* SpecVec: the vector store of one server process, with one reindex       *)
(* request at a time and a match request in flight together, over a jobs   *)
(* table that grows.                                                       *)
(***************************************************************************)
VecNext ==
    \/ \E j \in Jobs : save_job_from_source(j)
    \/ embed_and_store_jobs(1)
    \/ IndexAdd(1)
    \/ IdsExtend(1)
    \/ WriteIndexOpen(1)
    \/ WriteIndexDone(1)
    \/ IdsOpen(1)
    \/ IdsDump(1)
    \/ Crash
    \/ Restart
    \/ \E q \in Queries, k \in SearchTopKs : SearchBegin(q, k)
    \/ SearchMap
    \/ SearchReturn
    \/ SearchEnd

VecInit == DbInit({DefaultSettings}, "absent") /\ call = NoCall /\ VecOff /\ scoring = NoScored

SpecVec == VecInit /\ [][VecNext]_vars

(***************************************************************************)
(* SpecFallback: one process whose matcher was built over index files in   *)
(* any of the conditions a crash can leave them in.                        *)
(***************************************************************************)
\* Files left by: no reindex yet; a completed reindex of job 1; a crash
\* while ids.pkl was open; a crash between the two writes of a second
\* reindex.
DiskChoices ==
    {NoFiles,
     [index |-> Written(<<Encode(JobRow(1).text)>>), ids |-> Written(<<<<"job", 1>>>>)],
     [index |-> Written(<<Encode(JobRow(1).text)>>), ids |-> Opened],
     [index |-> Written(<<Encode(JobRow(1).text), Encode(JobRow(1).text)>>),
      ids |-> Written(<<<<"job", 1>>>>)]}

FallbackInit ==
    /\ DbInit({DefaultSettings}, "active")
    /\ call = NoCall
    /\ scoring = NoScored
    /\ batch = IdleBatch
    /\ vs = EmptyStore
    /\ disk \in DiskChoices
    /\ adding = [t \in Adders |-> IdleAdd]
    /\ searching = IdleSearch
    /\ nadds = 0
    /\ inserted = {}

FallbackNext ==
    \/ \E u \in UserIds, k \in TopKs : MatchUserToJobs(1, u, k, 0)
    \/ UploadResume(1, 0)
    \/ Fetch(1)
    \/ Score(1, {})
    \/ StoreDelete(1)
    \/ StoreAdd(1)
    \/ Commit(1)
    \/ Fail(1)
    \/ Return(1)
    \/ \E j \in Jobs : cleanup_old_jobs(j)

SpecFallback == FallbackInit /\ [][FallbackNext]_vars

(***************************************************************************)
(* refresh_job_matches_task (performance/background_jobs.py): the Celery   *)
(* worker's batch over all users, beside one web process.  The task is     *)
(* interrupted by Celery's soft time limit, which raises                   *)
(* SoftTimeLimitExceeded, an Exception, at the statement being executed.   *)
(***************************************************************************)
\* self.retry(..., max_retries=3), line 183
BatchMaxRetries == 3

\* db.query(UserProfile).filter(UserProfile.skills.isnot(None)).all()
UsersWithSkills == [i \in 1..Cardinality(Users) |-> i]

\* lines 157-164, on the first delivery of the task and on each retry
refresh_job_matches_task ==
    /\ batch.pc \in {"idle", "retry"}
    /\ batch' = [batch EXCEPT !.pc = "loop", !.users = UsersWithSkills, !.i = 1,
                              !.total_matches = 0, !.completed = {}]
    /\ UNCHANGED <<dbVars, call, scoring, vecVars>>

\* lines 165-171, one turn of the loop: the call passes limit=50 to a
\* method whose parameter is top_k, so it raises TypeError before the
\* method body is entered; the except logs it and the loop goes on.  No
\* call returns, so total_matches is never added to and no user joins
\* completed, the users whose call returned a list.
BatchMatchUser ==
    /\ batch.pc = "loop"
    /\ batch.i <= Len(batch.users)
    /\ batch' = [batch EXCEPT !.i = @ + 1]
    /\ UNCHANGED <<dbVars, call, scoring, vecVars>>

\* lines 173-179
BatchReturn ==
    /\ batch.pc = "loop"
    /\ batch.i > Len(batch.users)
    /\ batch' = [batch EXCEPT !.pc = "done"]
    /\ UNCHANGED <<dbVars, call, scoring, vecVars>>

\* SoftTimeLimitExceeded raised inside the try of lines 166-171: the except
\* of line 169 takes it as that user's error and continues with the next.
SoftTimeLimitInTry ==
    /\ batch.pc = "loop"
    /\ ~batch.cancelled
    /\ batch.i <= Len(batch.users)
    /\ batch' = [batch EXCEPT !.cancelled = TRUE, !.i = @ + 1]
    /\ UNCHANGED <<dbVars, call, scoring, vecVars>>

\* SoftTimeLimitExceeded raised outside that try: the except of line 181
\* asks for the whole task to be run again, until the retries are used up.
SoftTimeLimitOutsideTry ==
    /\ batch.pc = "loop"
    /\ ~batch.cancelled
    /\ batch' = [batch EXCEPT !.cancelled = TRUE,
                              !.pc = IF batch.retries < BatchMaxRetries
                                         THEN "retry" ELSE "failed",
                              !.retries = IF batch.retries < BatchMaxRetries
                                              THEN @ + 1 ELSE @]
    /\ UNCHANGED <<dbVars, call, scoring, vecVars>>

BatchNext ==
    \/ refresh_job_matches_task
    \/ BatchMatchUser
    \/ BatchReturn
    \/ SoftTimeLimitInTry
    \/ SoftTimeLimitOutsideTry
    \/ \E u \in UserIds, k \in TopKs : MatchUserToJobs(1, u, k, 0)
    \/ Fetch(1)
    \/ Score(1, {})
    \/ StoreDelete(1)
    \/ StoreAdd(1)
    \/ Commit(1)
    \/ Fail(1)
    \/ Return(1)

BatchInit == DbInit({DefaultSettings}, "active") /\ call = NoCall /\ VecOff /\ scoring = NoScored

SpecBatch == BatchInit /\ [][BatchNext]_vars

(***************************************************************************)
(* SpecAdd: reindex requests served by the threads of one process at the   *)
(* same time, over a jobs table that grows; no crash, no search.           *)
(***************************************************************************)
AddNext ==
    \/ \E j \in Jobs : save_job_from_source(j)
    \/ \E t \in Adders : embed_and_store_jobs(t)
    \/ \E t \in Adders : IndexAdd(t)
    \/ \E t \in Adders : IdsExtend(t)
    \/ \E t \in Adders : WriteIndexOpen(t)
    \/ \E t \in Adders : WriteIndexDone(t)
    \/ \E t \in Adders : IdsOpen(t)
    \/ \E t \in Adders : IdsDump(t)

AddInit == DbInit({DefaultSettings}, "absent") /\ call = NoCall /\ VecOff /\ scoring = NoScored

SpecAdd == AddInit /\ [][AddNext]_vars

(***************************************************************************)
(* Properties of the Match repository and the pipeline.                    *)
(***************************************************************************)
\* A match record as the pipeline computes it: a row without the columns the
\* table fills in itself.
RecordOf(m) ==
    [job_id |-> m.job_id, overall_score |-> m.overall_score,
     semantic_score |-> m.semantic_score, skill_match_score |-> m.skill_match_score,
     experience_match_score |-> m.experience_match_score,
     location_match_score |-> m.location_match_score,
     salary_match_score |-> m.salary_match_score,
     company_match_score |-> m.company_match_score,
     matched_skills |-> m.matched_skills, missing_skills |-> m.missing_skills,
     reasons |-> m.reasons]

RecordsOf(rows) == {RecordOf(m) : m \in rows}

\* C1: whatever a /matches or dashboard query reads for a user is the whole
\* set left by that user's last completed replace_matches: the old set while
\* a replace is between its DELETE and its commit, the new set afterwards,
\* never an emptied or partly inserted set.
C1_ReadersSeeWholeSet == seen.kind # "none" => seen.rows = seen.expected

\* C1 witness: a query that read a non-empty old set while a run of the same
\* user had deleted it and queued a first insert.
C1_Witness ==
    /\ seen.kind # "none"
    /\ seen.inTx
    /\ seen.rows # {}
    /\ \E p \in Procs : /\ run[p].pc = "insert"
                         /\ run[p].user_id = seen.user_id
                         /\ run[p].txDel # {}
                         /\ run[p].txNew # <<>>
                         /\ Len(run[p].txNew) < Len(TopK(run[p].matches, run[p].top_k))

\* C2: two runs for the same user are never both between their DELETE and
\* their commit, and once exactly two runs have been made and both have
\* returned for the same user, that user's rows are the list one of them
\* wrote, one row per record.
C2_SameUserRunsSerialized ==
    \A p, q \in Procs :
        (p # q /\ run[p].user_id = run[q].user_id) =>
            /\ ~(run[p].pc = "insert" /\ run[q].pc = "insert")
            /\ (nruns = 2 /\ run[p].pc = "done" /\ run[q].pc = "done"
                    /\ run[p].user_id \in Users) =>
                   \E w \in {p, q} :
                       /\ RecordsOf(UserRows(matches, run[p].user_id)) = Range(run[w].result)
                       /\ Cardinality(UserRows(matches, run[p].user_id)) = Len(run[w].result)

\* C2 witness: one run holds the transaction with an insert queued while a
\* second run for the same user, with another list to write, is at its DELETE.
C2_Witness ==
    \E p, q \in Procs :
        /\ p # q
        /\ run[p].user_id = run[q].user_id
        /\ run[p].pc = "insert" /\ run[p].txNew # <<>>
        /\ run[q].pc = "store"
        /\ run[q].matches # <<>>
        /\ TopK(run[q].matches, run[q].top_k) # TopK(run[p].matches, run[p].top_k)

\* C3: the matches table never holds two rows for one (user_id, job_id).
C3_OneRowPerUserJob ==
    \A a, b \in matches : (a.user_id = b.user_id /\ a.job_id = b.job_id) => a = b

\* C3 witness: a second run has replaced a user's rows by two rows or more.
C3_Witness ==
    \E p \in Procs :
        /\ run[p].pc = "done"
        /\ run[p].txDel # {}
        /\ \E a \in matches : /\ a.user_id = run[p].user_id
                               /\ a.created_at > 1
        /\ Cardinality(UserRows(matches, run[p].user_id)) > 1

\* C4: the step that completes replace_matches(user_id, records) leaves, for
\* that user, exactly one row for each record, equal to it, and no other row.
C4_ReplaceLeavesExactlyRecords ==
    [][\A p \in Procs :
          (run[p].pc = "insert" /\ run'[p].pc = "done") =>
              LET rows == UserRows(matches', run[p].user_id)
                  records == TopK(run[p].matches, run[p].top_k)
              IN  /\ \A i \in 1..Len(records) :
                         Cardinality({m \in rows : m.job_id = records[i].job_id}) = 1
                  /\ \A m \in rows : \E i \in 1..Len(records) : RecordOf(m) = records[i]]_dbVars

\* C4 witness: a completed replace that removed rows and wrote fewer than it
\* removed.
C4_Witness ==
    \E p \in Procs :
        /\ run[p].pc = "done"
        /\ run[p].result # <<>>
        /\ Cardinality(run[p].txDel) > Len(run[p].result)

\* C5: the step in which a run fails leaves the user's rows exactly as the
\* user's last completed replace left them.
C5_FailureKeepsLastGoodSet ==
    [][\A p \in Procs :
          (run[p].pc # "failed" /\ run'[p].pc = "failed" /\ run[p].user_id \in Users) =>
              UserRows(matches', run[p].user_id) = lastGood[run[p].user_id]]_dbVars

\* C5 witness: a run that failed after its DELETE and a first insert, for a
\* user who had rows.
C5_Witness ==
    \E p \in Procs :
        /\ run[p].pc = "failed"
        /\ run[p].txDel # {}
        /\ run[p].txNew # <<>>
        /\ UserRows(matches, run[p].user_id) # {}

\* C6 (as claimed): a run that commits for a user on the inputs the user's
\* previous completed run had read (same profile, jobs, top_k, encoder
\* outcome; weights and job rows never change) leaves the same records as
\* that run: same jobs, scores, evidence lists and reasons.
C6_ConsecutiveRunsIdentical ==
    [][\A p \in Procs :
          (/\ run[p].pc = "insert" /\ run'[p].pc = "done"
           /\ lastInputs[run[p].user_id] =
                  <<[user |-> run[p].user, jobs |-> run[p].jobs,
                     top_k |-> run[p].top_k, encFail |-> run[p].encFail]>>) =>
              RecordsOf(UserRows(matches', run[p].user_id))
                  = RecordsOf(UserRows(matches, run[p].user_id))]_dbVars

\* The records match_user_to_jobs scored for the run in slot p.
ScoredBy(p) ==
    {_calculate_match_score(settings.weights, Profile(run[p].user_id, run[p].user),
                            JobRow(run[p].jobs[i]), run[p].seed,
                            run[p].jobs[i] \notin run[p].encFail) :
         i \in 1..Len(run[p].jobs)}

\* C7: the list a run returns holds scored records only, each once and none
\* below thresholds.minimum_match_score, in non-increasing score order, at
\* most top_k of them; a scored record that meets the threshold is left out
\* only when the list is full, and then it outscores no returned record.
C7_ReturnedListIsTopK ==
    \A p \in Procs :
        (run[p].pc = "done" /\ run[p].user_id \in Users) =>
            LET r == run[p].result
                threshold == MinimumMatchScore(settings.thresholds)
            IN  /\ \A i \in 1..Len(r) : r[i] \in ScoredBy(p)
                /\ \A i, j \in 1..Len(r) : i # j => r[i].job_id # r[j].job_id
                /\ \A i \in 1..Len(r) : r[i].overall_score >= threshold
                /\ \A i, j \in 1..Len(r) : i < j => r[i].overall_score >= r[j].overall_score
                /\ Len(r) <= run[p].top_k
                /\ \A m \in ScoredBy(p) \ Range(r) :
                       m.overall_score >= threshold =>
                           /\ Len(r) = run[p].top_k
                           /\ \A i \in 1..Len(r) : r[i].overall_score >= m.overall_score

\* A run with top_k = 1 over two active jobs that both meet the threshold has
\* returned the later-fetched job alone: the sort moved it to the front and
\* the slice dropped the other.
C7_Witness ==
    \E p \in Procs :
        /\ run[p].pc = "done"
        /\ run[p].top_k = 1
        /\ Len(run[p].jobs) = 2
        /\ Len(run[p].result) = 1
        /\ run[p].result[1].job_id = run[p].jobs[2]
        /\ \E m \in ScoredBy(p) \ Range(run[p].result) :
               /\ m.overall_score >= MinimumMatchScore(settings.thresholds)
               /\ m.overall_score < run[p].result[1].overall_score

\* C8: whatever the six sub-scores in [0,1] and the non-negative weights,
\* the overall_score the Scorer computes lies in [0,1].
C8_OverallScoreInUnitInterval ==
    call.done => call.overall_score >= 0 /\ call.overall_score <= One

\* C9: after a crash inside add or _save, the index file and the ids file
\* are both as they were before the call or both as the completed call
\* leaves them, and they hold as many vectors as ids.
C9_FilesAgreeAfterCrash ==
    adding[1].pc = "crashed" =>
        /\ disk \in {adding[1].diskBefore, adding[1].diskAfter}
        /\ Len(disk.index.items) = Len(disk.ids.items)

\* C10: a search answers what a search of a complete state of the store
\* could answer: the store as it was when the search began, or the store
\* before or after an add it overlapped.
C10_SearchSeesCompleteStore ==
    searching.pc = "done" => searching.row \in searching.allowed

\* C11: once every add() call has returned, the store holds as many ids as
\* vectors and the i-th id is the id of the job whose vector is the i-th.
C11_IdsFollowVectors ==
    (\A t \in Adders : adding[t].pc = "idle") =>
        /\ Len(vs.ids) = Len(vs.index)
        /\ \A i \in 1..Min(Len(vs.ids), Len(vs.index)) :
               vs.index[i] = Encode(JobRow(vs.ids[i][2]).text)

\* C12: a finished search has at most top_k rows, in non-increasing order of
\* score, each with an id that an insert gave to the store.
C12_SearchRowsBounded ==
    searching.pc = "done" =>
        LET row == searching.row
        IN  /\ Len(row) <= searching.k
            /\ \A i, j \in 1..Len(row) : i < j => row[i].score >= row[j].score
            /\ \A i \in 1..Len(row) : row[i].id \in inserted

\* A search for two rows, after two reindex requests have completed, that
\* returned two rows of different scores.
C12_Witness ==
    /\ searching.pc = "done"
    /\ nadds = MaxAdds
    /\ \A t \in Adders : adding[t].pc = "idle"
    /\ Len(vs.ids) > 2
    /\ Len(searching.row) = 2
    /\ searching.row[1].score > searching.row[2].score

\* Files a FaissStore cannot be built on: one of the two is unreadable, or
\* they hold different numbers of items.
DiskCorrupt(d) ==
    /\ d.index.exists /\ d.ids.exists
    /\ \/ ~d.index.whole
       \/ ~d.ids.whole
       \/ Len(d.index.items) # Len(d.ids.items)

\* C19: constructing the store over corrupt files never yields a store in
\* service: the constructor signals the corruption instead.
C19_CorruptFilesAreSignalled ==
    [][(adding[1].pc = "crashed" /\ DiskCorrupt(disk)) => adding'[1].pc # "idle"]_vars

C14_ProfileEncodingFailureAborts ==
    \A p \in Procs :
        (run[p].jobs # <<>> /\ run[p].encFail = Range(run[p].jobs)) =>
            run[p].pc \notin {"insert", "done"}

\* C15: a job whose text did not encode, in a run where other jobs did, is
\* in neither the returned list nor the rows the run leaves.
C15_FailedJobIsExcluded ==
    \A p \in Procs :
        (/\ run[p].pc = "done"
         /\ run[p].encFail # {}
         /\ run[p].encFail # Range(run[p].jobs)) =>
            /\ \A i \in 1..Len(run[p].result) : run[p].result[i].job_id \notin run[p].encFail
            /\ \A m \in UserRows(matches, run[p].user_id) : m.job_id \notin run[p].encFail

\* C16: a user's rows change only in the step that completes a replace of
\* that user's own run; no step of a run for another user, completing or
\* failing, changes them.
C16_OtherUsersRowsUntouched ==
    [][\A u \in Users :
          UserRows(matches', u) # UserRows(matches, u) =>
              \E p \in Procs : /\ run[p].user_id = u
                                /\ run[p].pc = "insert"
                                /\ run'[p].pc = "done"]_dbVars

\* A completed replace for one user that deleted and wrote rows while
\* another user's earlier rows are in the table.
C16_Witness ==
    \E p \in Procs : \E u \in Users :
        /\ run[p].pc = "done"
        /\ run[p].user_id \in Users
        /\ u # run[p].user_id
        /\ run[p].txNew # <<>>
        /\ UserRows(matches, u) # {}
        /\ UserRows(matches, u) = lastGood[u]
        /\ \A a \in UserRows(matches, u), b \in UserRows(matches, run[p].user_id) :
               a.created_at < b.created_at

\* C18: a run fails in its persist step only after a second attempt at it.
C18_PersistFailureIsRetried ==
    [][\A p \in Procs :
          (run[p].pc \in {"store", "insert"} /\ run'[p].pc = "failed") =>
              run[p].attempts > 1]_dbVars

\* C20: a run that finds no active job reads an empty job list, and the
\* step that completes it returns the empty list and leaves the user
\* without rows.
C20_NoActiveJobsLeavesNoRows ==
    [][\A p \in Procs :
          /\ (/\ run[p].pc = "fetch" /\ run'[p].pc = "score"
              /\ \A j \in Jobs : jobState[j] # "active") =>
                 run'[p].jobs = <<>>
          /\ (run[p].pc = "insert" /\ run'[p].pc = "done" /\ run[p].jobs = <<>>) =>
                 /\ run'[p].result = <<>>
                 /\ UserRows(matches', run[p].user_id) = {}]_dbVars

\* A run over no active job that replaced the rows the user had by none.
C20_Witness ==
    \E p \in Procs :
        /\ run[p].pc = "done"
        /\ run[p].user_id \in Users
        /\ run[p].jobs = <<>>
        /\ run[p].txDel # {}
        /\ run[p].result = <<>>
        /\ UserRows(matches, run[p].user_id) = {}

\* C17: once the batch has been interrupted it starts on no further user,
\* and no step of the batch takes the last rows of a user who had some.
C17_CancelledBatchStartsNoNewUser ==
    [][/\ (batch.cancelled /\ batch.pc = "loop" /\ batch'.pc = "loop") =>
              batch'.i = batch.i
       /\ batch' # batch =>
              \A u \in Users : UserRows(matches, u) # {} => UserRows(matches', u) # {}]_vars

(***************************************************************************)
(* Properties of the sub-scores.                                           *)
(***************************************************************************)
\* The profile's skills and the job's required and preferred skills, in
\* lower case.
ProfileSkillSet(user) == {Lower(x) : x \in Range(user.skills)}
StructuredSkillSet(job) ==
    {Lower(x) : x \in Range(job.required_skills) \cup Range(job.preferred_skills)}

\* The skill part of a result is the overlap of P with J: the ratio, and
\* the two lists as sets without repetition; the neutral 0.5 for empty J.
SkillPartIs(r, P, J) ==
    IF J = {} THEN r.skill_match_score = Scale \div 2
    ELSE /\ r.skill_match_score = (Cardinality(P \cap J) * Scale) \div Cardinality(J)
         /\ Range(r.matched_skills) = P \cap J
         /\ Len(r.matched_skills) = Cardinality(P \cap J)
         /\ Range(r.missing_skills) = J \ P
         /\ Len(r.missing_skills) = Cardinality(J \ P)

\* C21 as claimed: the skill score, matched_skills and missing_skills are
\* those of the profile's skills against the job's structured skills.
C21_SkillMatchOverStructuredSkills ==
    scoring.done =>
        SkillPartIs(scoring.result, ProfileSkillSet(scoring.user),
                    StructuredSkillSet(scoring.job))

\* C21 as the code has it: the job's skill set is its structured skills
\* together with every skill of common_skills that occurs in its
\* description.
C21_SkillMatchOverAllJobSkills ==
    scoring.done =>
        SkillPartIs(scoring.result, ProfileSkillSet(scoring.user),
                    StructuredSkillSet(scoring.job)
                        \cup {k \in common_skills :
                                 \E i \in 1..Len(scoring.job.description) :
                                     SkillInWord(k, scoring.job.description[i])})

\* The scenario's profile and required skills, with a description that
\* names further skills: one of five job skills is matched.
C21_Witness ==
    /\ scoring.done
    /\ scoring.user.skills = <<"python", "react">>
    /\ scoring.job.required_skills = <<"python", "sql">>
    /\ scoring.job.preferred_skills = <<>>
    /\ scoring.job.description = <<"javascript", "interest">>
    /\ scoring.result.skill_match_score = Scale \div 5
    /\ scoring.result.matched_skills = <<"python">>

\* C22: for each of the six levels and every number of years from 0 up, the
\* experience score is 1.0 inside the level's range, and outside it falls
\* by 0.2 per year short down to 0.3, by 0.1 per year over down to 0.6.
C22_ExperienceScoreFollowsRange ==
    (scoring.done /\ scoring.job.experience_level
                        \in {"entry", "junior", "mid", "senior", "lead", "principal"}) =>
        LET job_range == level_ranges(scoring.job.experience_level)
            years == scoring.user.experience_years
            score == scoring.result.experience_match_score
        IN  /\ (job_range[1] <= years /\ years <= job_range[2]) => score = Scale
            /\ years < job_range[1] =>
                   score = Max((3 * Scale) \div 10,
                               Scale - (job_range[1] - years) * ((2 * Scale) \div 10))
            /\ years > job_range[2] =>
                   score = Max((6 * Scale) \div 10,
                               Scale - (years - job_range[2]) * (Scale \div 10))

\* The candidate's and the job's range as the scorer reads them, doubled: a
\* missing candidate ceiling is 1.5 times the floor, a missing job ceiling
\* is the job's floor.
CandidateRange(user) ==
    <<2 * user.preferred_salary_min,
      IF user.preferred_salary_max # 0 THEN 2 * user.preferred_salary_max
                                       ELSE 3 * user.preferred_salary_min>>
JobRange(job) ==
    <<2 * job.salary_min, IF job.salary_max # 0 THEN 2 * job.salary_max ELSE 2 * job.salary_min>>

\* C23: without a floor on either side the salary score is 0.7; for a
\* candidate range of positive width and a job range [j_min, j_max] it is
\* overlap / candidate width when the ranges overlap, 1.0 when the job's
\* floor is above the candidate's ceiling, and 1 - gap / u_min but at least
\* 0.2 when the job's ceiling is below the candidate's floor.
C23_SalaryScoreByCase ==
    scoring.done =>
        LET u == CandidateRange(scoring.user)
            j == JobRange(scoring.job)
            score == scoring.result.salary_match_score
        IN  IF scoring.user.preferred_salary_min = 0 \/ scoring.job.salary_min = 0
            THEN score = (7 * Scale) \div 10
            ELSE (u[1] < u[2] /\ j[1] <= j[2]) =>
                     /\ (j[2] >= u[1] /\ j[1] <= u[2]) =>
                            score = ((Min(u[2], j[2]) - Max(u[1], j[1])) * Scale)
                                        \div (u[2] - u[1])
                     /\ j[1] > u[2] => score = Scale
                     /\ j[2] < u[1] =>
                            /\ score >= (2 * Scale) \div 10
                            /\ score = Max((2 * Scale) \div 10,
                                           Scale - ((u[1] - j[2]) * Scale) \div u[1])

\* The scenario: job 120-150 against a candidate range 100-130.
C23_Witness ==
    /\ scoring.done
    /\ scoring.user.preferred_salary_min = 100
    /\ scoring.user.preferred_salary_max = 130
    /\ scoring.job.salary_min = 120
    /\ scoring.job.salary_max = 150
    /\ scoring.result.salary_match_score = (10 * Scale) \div 30

\* C27: a record that meets the default threshold, and so is persisted, has
\* its six sub-scores between 0 and 1.
C27_SubScoresInUnitInterval ==
    (scoring.done /\ scoring.result.overall_score >= (6 * One) \div 10) =>
        \A x \in {scoring.result.semantic_score, scoring.result.skill_match_score,
                   scoring.result.experience_match_score,
                   scoring.result.location_match_score,
                   scoring.result.salary_match_score,
                   scoring.result.company_match_score} : 0 <= x /\ x <= Scale

\* C30: with the candidate's range and the job's floor fixed, a higher job
\* ceiling never gives a lower salary score.
C30_SalaryScoreMonotoneInCeiling ==
    (/\ scoring.done
     /\ scoring.user.preferred_salary_min # 0
     /\ scoring.job.salary_min # 0
     /\ scoring.job.salary_max >= scoring.job.salary_min) =>
        \A higher \in SalaryValues :
            higher > scoring.job.salary_max =>
                _calculate_salary_match(scoring.user,
                                        [scoring.job EXCEPT !.salary_max = higher])
                    >= scoring.result.salary_match_score

\* C24: a semantic_score is the inner product of the two unit vectors
\* floored at 0, in a record of the enhanced matcher whose texts were
\* encoded and in every match of match_profile.
C24_SemanticScoreFlooredAtZero ==
    /\ (scoring.done /\ scoring.encOk) =>
           scoring.result.semantic_score =
               Max(0, (Dot(Encode(scoring.user.text), Encode(scoring.job.text)) * Scale)
                          \div 25)
    /\ searching.pc = "done" =>
           \A i \in 1..Len(searching.matches) :
               LET m == searching.matches[i]
               IN  /\ m.semantic_score >= 0
                   /\ m.semantic_score =
                          Max(0, (Dot(Encode(searching.q), Encode(JobRow(m.job_id).text))
                                      * Scale) \div 25)

\* C25: when the index files load and hold vectors, every job a run has
\* scored is one the index holds, so one a shortlist search can return.
C25_OnlyShortlistedJobsScored ==
    LET store == FaissStore_init(disk)
    IN  (~DiskCorrupt(disk) /\ store.ids # <<>>) =>
            \A p \in Procs :
                run[p].pc \in {"store", "insert", "done"} =>
                    \A i \in 1..Len(run[p].matches) :
                        JobKey(run[p].matches[i].job_id) \in Range(store.ids)

\* C26: once no reindex is in progress, the index holds one vector per
\* job id: no id is at two positions, and there are as many vectors as ids.
C26_OneVectorPerJob ==
    (\A t \in Adders : adding[t].pc = "idle") =>
        /\ Len(vs.index) = Len(vs.ids)
        /\ \A a, b \in 1..Len(vs.ids) : vs.ids[a] = vs.ids[b] => a = b

\* C28: when the task has returned its 'success' dict, the call for every
\* user it read has returned a list, that is, the user's run completed.
C28_SuccessMeansEveryUserMatched ==
    batch.pc = "done" => \A i \in 1..Len(batch.users) : batch.users[i] \in batch.completed

\* C29: the step that completes a run leaves, for its user, one row per
\* element of the list it returns, carrying that element's job_id, scores
\* and evidence, and no other row.
C29_PersistedEqualsReturned ==
    [][\A p \in Procs :
          (run[p].pc = "insert" /\ run'[p].pc = "done") =>
              LET rows == UserRows(matches', run[p].user_id)
                  returned == run'[p].result
              IN  /\ RecordsOf(rows) = Range(returned)
                  /\ Cardinality(rows) = Len(returned)
                  /\ \A i, j \in 1..Len(returned) :
                         returned[i].job_id = returned[j].job_id => i = j]_dbVars

\* A run that returned two matches, which are the user's two rows.
C29_Witness ==
    \E p \in Procs :
        /\ run[p].pc = "done"
        /\ run[p].user_id \in Users
        /\ Len(run[p].result) = 2
        /\ RecordsOf(UserRows(matches, run[p].user_id)) = Range(run[p].result)
        /\ run[p].result[1].salary_match_score # 0

====
